---- MODULE Spec2Model ----
(***************************************************************************)
(* The sample highlighter of js/help.js: encode (the seven regular-        *)
(* expression loops over a scan buffer and a result buffer), replaceAt,    *)
(* setSample, and the formatter registry FormatterInstances.               *)
(*                                                                         *)
(* Texts are sequences of one-character strings.  Offsets kept in the      *)
(* state (lastIndex, match.index) are JavaScript's, counted from 0;        *)
(* positions inside the operators are TLA+'s, counted from 1.              *)
(***************************************************************************)
EXTENDS Integers, Sequences, FiniteSets, TLC

VARIABLES
    pc,         \* where encode stands: "call", "scan", "done"
    input,      \* the argument encode was called with
    str,        \* the scan buffer (the parameter str, reassigned)
    result,     \* the result buffer
    rule,       \* which of the seven loops is running, 1..7
    lastIndex,  \* regexp.lastIndex of the running loop's RegExp
    trimmed,    \* history: the text right after str.trim()
    strOrig,    \* history: per scan-buffer offset, its offset in trimmed, 0 = masked
    spans,      \* history: the matches so far, as ranges of trimmed
    doc,        \* the page: element id -> innerHTML
    shown,      \* history: element id -> the sample it was set from
    tag,        \* the element id of the running setSample call
    samples,    \* the formatter ids of the loaded samples
    resolved,   \* the formatters getAllFormattedSamples has resolved so far
    registry,   \* the object FormatterInstances: property name -> value
    rendered,   \* the fragments the running map has collected
    caller,     \* the exported function that is running or ran last
    outcome,    \* "idle", "map", "returned" or "thrown"
    html        \* what the last call returned

vars == <<pc, input, str, result, rule, lastIndex, trimmed, strOrig, spans,
          doc, shown, tag, samples, resolved, registry, rendered, caller, outcome, html>>

encodeVars == <<pc, input, str, result, rule, lastIndex, trimmed, strOrig, spans>>
pageVars == <<doc, shown, tag>>
registryVars == <<samples, resolved, registry, rendered, caller, outcome, html>>

----------------------------------------------------------------------------
(* Bounds *)

MaxTokens == 3

MaxLongTokens == 4

MaxSamples == 3

MaxNestedTokens == 5

----------------------------------------------------------------------------
(* Characters *)

Digits == {"0", "1", "2", "3", "4", "5", "6", "7", "8", "9"}

OctalDigits == {"0", "1", "2", "3", "4", "5", "6", "7"}

Lower == {"a", "b", "c", "d", "e", "f", "g", "h", "i", "j", "k", "l", "m",
          "n", "o", "p", "q", "r", "s", "t", "u", "v", "w", "x", "y", "z"}

Upper == {"A", "B", "C", "D", "E", "F", "G", "H", "I", "J", "K", "L", "M",
          "N", "O", "P", "Q", "R", "S", "T", "U", "V", "W", "X", "Y", "Z"}

\* [a-zA-Z0-9]
Alnum == Lower \cup Upper \cup Digits

\* [0-9A-Za-z_]
WordChars == Alnum \cup {"_"}

\* [0-9A-Za-z\._]
DataChars == WordChars \cup {"."}

\* [xXbBoO]
RadixPrefix == {"x", "X", "b", "B", "o", "O"}

\* what . does not match without the s flag
LineTerminators == {"\n", "\r"}

\* what String.prototype.trim strips
WhiteSpace == {" ", "\t", "\n", "\r"}

----------------------------------------------------------------------------
(* Strings *)

Min(S) == CHOOSE x \in S : \A y \in S : x <= y

Max(S) == CHOOSE x \in S : \A y \in S : x >= y

\* s.substring(from) with from counted from 0; past the end it is empty
Substring(s, from) == IF from >= Len(s) THEN <<>> ELSE SubSeq(s, from + 1, Len(s))

\* s.substring(0, to); to is clamped to the length
Prefix(s, to) == IF to >= Len(s) THEN s ELSE SubSeq(s, 1, to)

\* ''.padStart(n, ' ')
padStart(n) == [k \in 1..n |-> " "]

\* the trim call left out: the text as it came
trimNone(s) == s

\* str.trim()
trim(s) ==
    LET keep == {k \in 1..Len(s) : s[k] \notin WhiteSpace}
    IN  IF keep = {} THEN <<>>
        ELSE SubSeq(s, Min(keep), Max(keep))

\* the first position in lo..hi at which t occurs in s, 0 if there is none
\* (the range is halved rather than walked, to keep the evaluation shallow)
RECURSIVE FirstAt(_, _, _, _)
FirstAt(s, t, lo, hi) ==
    IF lo > hi THEN 0
    ELSE IF lo = hi
         THEN IF SubSeq(s, lo, lo + Len(t) - 1) = t THEN lo ELSE 0
         ELSE LET mid == (lo + hi) \div 2
                  left == FirstAt(s, t, lo, mid)
              IN  IF left # 0 THEN left ELSE FirstAt(s, t, mid + 1, hi)

\* s.indexOf(search): the first offset (from 0) where search occurs, -1 if none
indexOf(s, search) == FirstAt(s, search, 1, Len(s) - Len(search) + 1) - 1

\* the grave accent (U+0060), named because a string cannot hold it
GraveAccent == "grave"

\* the characters that make a replacement pattern after a $
PatternChars == {"$", "&", GraveAccent, "'"}

\* whether a replacement pattern ($$, $&, $ grave, $') starts at position k: a $
\* followed by a pattern character, and not itself the second $ of a $$
IsPattern(replacement, k) ==
    /\ k < Len(replacement)
    /\ replacement[k] = "$"
    /\ replacement[k + 1] \in PatternChars
    /\ LET first == CHOOSE a \in 1..k :
                        /\ \A j \in a..k : replacement[j] = "$"
                        /\ a = 1 \/ replacement[a - 1] # "$"
       IN  (k - first) % 2 = 0

\* what position k of the replacement contributes to the substituted text
Substituted(matched, s, position, replacement, k) ==
    IF IsPattern(replacement, k)
    THEN CASE replacement[k + 1] = "$" -> <<"$">>
           [] replacement[k + 1] = "&" -> matched
           [] replacement[k + 1] = GraveAccent -> Prefix(s, position)
           [] replacement[k + 1] = "'" -> Substring(s, position + Len(matched))
    ELSE IF k > 1 /\ IsPattern(replacement, k - 1) THEN <<>>
    ELSE <<replacement[k]>>

\* GetSubstitution for a string pattern (no captures): $$ is $, $& the match,
\* $ grave the text before it, $' the text after it; any other $ stays.  The text
\* for positions lo..hi of the replacement.
RECURSIVE GetSubstitution(_, _, _, _, _, _)
GetSubstitution(matched, s, position, replacement, lo, hi) ==
    IF lo > hi THEN <<>>
    ELSE IF lo = hi THEN Substituted(matched, s, position, replacement, lo)
    ELSE LET mid == (lo + hi) \div 2
         IN  GetSubstitution(matched, s, position, replacement, lo, mid)
             \o GetSubstitution(matched, s, position, replacement, mid + 1, hi)

\* s.replace(search, replacement) with a string search: the first occurrence only
replace(s, search, replacement) ==
    LET position == indexOf(s, search)
    IN  IF position = -1 THEN s
        ELSE Prefix(s, position)
             \o GetSubstitution(search, s, position, replacement, 1, Len(replacement))
             \o Substring(s, position + Len(search))

replaceAt(s, search, index, replacement) ==
    Prefix(s, index) \o replace(Substring(s, index), search, replacement)

----------------------------------------------------------------------------
(* Markup *)

SpanOpen(class) ==
    <<"<", "s", "p", "a", "n", " ", "c", "l", "a", "s", "s", "=", "\"">> \o class \o <<"\"", ">">>

SpanClose == <<"<", "/", "s", "p", "a", "n", ">">>

ClassComment == <<"c", "o", "m", "m", "e", "n", "t">>
ClassRadix == <<"r", "a", "d", "i", "x">>
ClassDecorator == <<"d", "e", "c", "o", "r", "a", "t", "o", "r">>
ClassFunction == <<"f", "u", "n", "c", "t", "i", "o", "n">>
ClassData == <<"d", "a", "t", "a">>

NumRules == 7

\* what each loop's template puts before and after match[0]
RuleOpen(r) ==
    CASE r = 1 -> SpanOpen(ClassComment)
      [] r = 2 -> SpanOpen(ClassComment)
      [] r = 3 -> SpanOpen(ClassRadix)
      [] r = 4 -> SpanOpen(ClassDecorator)
      [] r = 5 -> SpanOpen(ClassFunction)
      [] r = 6 -> <<>>
      [] r = 7 -> SpanOpen(ClassData)

RuleClose(r) == IF r = 5 THEN <<>> ELSE SpanClose

Replacement(r, m) == RuleOpen(r) \o m \o RuleClose(r)

----------------------------------------------------------------------------
(* The seven patterns.  Each MatchX(s, i) is the position just past the    *)
(* match of the pattern anchored at position i of s, or 0 if it does not   *)
(* match there.                                                            *)

At(s, i) == IF i >= 1 /\ i <= Len(s) THEN s[i] ELSE ""

\* the first position in lo..hi whose character is in class (inside) or is not
\* (~inside), 0 if there is none
RECURSIVE FirstWhere(_, _, _, _, _)
FirstWhere(s, class, inside, lo, hi) ==
    IF lo > hi THEN 0
    ELSE IF lo = hi
         THEN IF (s[lo] \in class) = inside THEN lo ELSE 0
         ELSE LET mid == (lo + hi) \div 2
                  left == FirstWhere(s, class, inside, lo, mid)
              IN  IF left # 0 THEN left ELSE FirstWhere(s, class, inside, mid + 1, hi)

\* the position just past the longest run of characters of class from i on
RunEnd(s, i, class) ==
    LET j == FirstWhere(s, class, FALSE, i, Len(s))
    IN  IF i > Len(s) THEN i ELSE IF j = 0 THEN Len(s) + 1 ELSE j

\* the position just past the longest run of characters outside class from i on
RunEndNot(s, i, class) ==
    LET j == FirstWhere(s, class, TRUE, i, Len(s))
    IN  IF i > Len(s) THEN i ELSE IF j = 0 THEN Len(s) + 1 ELSE j

\* \/\/.*
MatchLineComment(s, i) ==
    IF At(s, i) = "/" /\ At(s, i + 1) = "/"
    THEN RunEndNot(s, i + 2, LineTerminators)
    ELSE 0

\* the first position from j on where */ starts, 0 if none
BlockEnd(s, j) == FirstAt(s, <<"*", "/">>, j, Len(s) - 1)

\* \/\*.*?\*\/ with the s flag
MatchBlockComment(s, i) ==
    IF At(s, i) = "/" /\ At(s, i + 1) = "*"
    THEN LET e == BlockEnd(s, i + 2)
         IN  IF e = 0 THEN 0 ELSE e + 2
    ELSE 0

\* 0[xXbBoO]?[a-zA-Z0-9]+
MatchRadix(s, i) ==
    IF At(s, i) # "0" THEN 0
    ELSE IF At(s, i + 1) \in RadixPrefix /\ RunEnd(s, i + 2, Alnum) > i + 2
         THEN RunEnd(s, i + 2, Alnum)
         ELSE IF RunEnd(s, i + 1, Alnum) > i + 1
              THEN RunEnd(s, i + 1, Alnum)
              ELSE 0

\* \@[0-9A-Za-z_]+
MatchDecorator(s, i) ==
    IF At(s, i) = "@" /\ RunEnd(s, i + 1, WordChars) > i + 1
    THEN RunEnd(s, i + 1, WordChars)
    ELSE 0

\* [0-9A-Za-z_]*\(
MatchFunction(s, i) ==
    LET e == RunEnd(s, i, WordChars)
    IN  IF At(s, e) = "(" THEN e + 1 ELSE 0

\* \)
MatchClose(s, i) == IF At(s, i) = ")" THEN i + 1 ELSE 0

\* the data pattern with * in place of + after the character class
MatchDataStar(s, i) ==
    LET q1 == IF At(s, i) = "\"" THEN i + 1 ELSE i
        q2 == IF At(s, q1) = "'" THEN q1 + 1 ELSE q1
        w  == RunEnd(s, q2, DataChars)
        e  == IF At(s, w) \in {"e", "E"} THEN w + 1 ELSE w
        g  == IF At(s, e) \in {"-", "+"} THEN e + 1 ELSE e
        o  == RunEnd(s, g, OctalDigits)
        c1 == IF At(s, o) = "\"" THEN o + 1 ELSE o
        c2 == IF At(s, c1) = "'" THEN c1 + 1 ELSE c1
    IN  c2

\* \"?\'?[0-9A-Za-z\._]+[eE]?[\-\+]?[0-7]*\"?\'?
MatchData(s, i) ==
    LET q1 == IF At(s, i) = "\"" THEN i + 1 ELSE i
        q2 == IF At(s, q1) = "'" THEN q1 + 1 ELSE q1
        w  == RunEnd(s, q2, DataChars)
        e  == IF At(s, w) \in {"e", "E"} THEN w + 1 ELSE w
        g  == IF At(s, e) \in {"-", "+"} THEN e + 1 ELSE e
        o  == RunEnd(s, g, OctalDigits)
        c1 == IF At(s, o) = "\"" THEN o + 1 ELSE o
        c2 == IF At(s, c1) = "'" THEN c1 + 1 ELSE c1
    IN  IF w > q2 THEN c2 ELSE 0

MatchEnd(r, s, i) ==
    CASE r = 1 -> MatchLineComment(s, i)
      [] r = 2 -> MatchBlockComment(s, i)
      [] r = 3 -> MatchRadix(s, i)
      [] r = 4 -> MatchDecorator(s, i)
      [] r = 5 -> MatchFunction(s, i)
      [] r = 6 -> MatchClose(s, i)
      [] r = 7 -> MatchData(s, i)

NoMatch == [index |-> -1, text |-> <<>>]

\* the first position in lo..hi where rule r's pattern matches, 0 if none
RECURSIVE FirstMatch(_, _, _, _)
FirstMatch(r, s, lo, hi) ==
    IF lo > hi THEN 0
    ELSE IF lo = hi
         THEN IF MatchEnd(r, s, lo) # 0 THEN lo ELSE 0
         ELSE LET mid == (lo + hi) \div 2
                  left == FirstMatch(r, s, lo, mid)
              IN  IF left # 0 THEN left ELSE FirstMatch(r, s, mid + 1, hi)

\* regexp.exec(s) of a global RegExp whose lastIndex is li: the leftmost match
\* starting at offset li or later
exec(r, s, li) ==
    LET i == FirstMatch(r, s, li + 1, Len(s))
    IN  IF i = 0 THEN NoMatch
        ELSE [index |-> i - 1, text |-> SubSeq(s, i, MatchEnd(r, s, i) - 1)]

----------------------------------------------------------------------------
(* Input texts: every concatenation of at most MaxTokens of these lexemes *)

Tokens ==
    { <<"/", "/">>, <<"/", "*">>, <<"*", "/">>, <<"\n">>, <<" ">>, <<"$", "$">>,
      <<"0", "x", "1">>, <<"a">>, <<"(">>, <<")">>, <<"&">>, <<"@">> }

RECURSIVE TextsUpTo(_)
TextsUpTo(n) ==
    IF n = 0 THEN {<<>>}
    ELSE LET shorter == TextsUpTo(n - 1)
         IN  shorter \cup {t \o x : t \in Tokens, x \in shorter}

Texts == TextsUpTo(MaxTokens)

LongTexts == TextsUpTo(MaxLongTokens)

\* the pieces of the texts with comments, parentheses and $$ in them
NestedTokens == { <<"/", "/">>, <<"/", "*">>, <<"*", "/">>, <<"$", "$">>, <<"a">>, <<"(">>, <<")">> }

RECURSIVE NestedTextsUpTo(_)
NestedTextsUpTo(n) ==
    IF n = 0 THEN {<<>>}
    ELSE LET shorter == NestedTextsUpTo(n - 1)
         IN  shorter \cup {t \o x : t \in NestedTokens, x \in shorter}

NestedTexts == NestedTextsUpTo(MaxNestedTokens)

----------------------------------------------------------------------------
(* encode *)

\* Enter with a result buffer that outlives the call and is set only while empty
EnterKeepsResult ==
    /\ pc = "call"
    /\ str' = trim(str)
    /\ result' = IF result = <<>> THEN str' ELSE result
    /\ rule' = 1
    /\ lastIndex' = 0
    /\ pc' = "scan"
    /\ trimmed' = str'
    /\ strOrig' = [k \in 1..Len(str') |-> k]
    /\ spans' = <<>>
    /\ UNCHANGED <<input, pageVars, registryVars>>

\* str = str.trim(); let result = str; then the first new RegExp
Enter ==
    /\ pc = "call"
    /\ str' = trim(str)
    /\ result' = str'
    /\ rule' = 1
    /\ lastIndex' = 0
    /\ pc' = "scan"
    /\ trimmed' = str'
    /\ strOrig' = [k \in 1..Len(str') |-> k]
    /\ spans' = <<>>
    /\ UNCHANGED <<input, pageVars, registryVars>>

\* the loop body with the scan buffer given the markup instead of the padding
ReplaceUnmasked(match) ==
    /\ pc = "scan"
    /\ match # NoMatch
    /\ LET replacement == Replacement(rule, match.text)
           end == match.index + Len(match.text)
       IN  /\ str' = replaceAt(str, match.text, match.index, replacement)
           /\ result' = replaceAt(result, match.text, match.index, replacement)
           /\ lastIndex' = end
           /\ strOrig' = Prefix(strOrig, match.index)
                         \o [k \in 1..Len(replacement) |-> 0]
                         \o Substring(strOrig, end)
           /\ spans' = Append(spans, [rule |-> rule,
                                      lo |-> strOrig[match.index + 1],
                                      hi |-> strOrig[end]])
    /\ UNCHANGED <<pc, input, rule, trimmed, pageVars, registryVars>>

\* the loop body with the cursor moved on by the growth of the scan buffer
ReplaceSkips(match) ==
    /\ pc = "scan"
    /\ match # NoMatch
    /\ LET replacement == Replacement(rule, match.text)
           end == match.index + Len(match.text)
       IN  /\ str' = replaceAt(str, match.text, match.index, padStart(Len(replacement)))
           /\ result' = replaceAt(result, match.text, match.index, replacement)
           /\ lastIndex' = end + Len(replacement)
           /\ strOrig' = Prefix(strOrig, match.index)
                         \o [k \in 1..Len(replacement) |-> 0]
                         \o Substring(strOrig, end)
           /\ spans' = Append(spans, [rule |-> rule,
                                      lo |-> strOrig[match.index + 1],
                                      hi |-> strOrig[end]])
    /\ UNCHANGED <<pc, input, rule, trimmed, pageVars, registryVars>>

\* the body of the running while loop, for the match exec found
Replace(match) ==
    /\ pc = "scan"
    /\ match # NoMatch
    /\ LET replacement == Replacement(rule, match.text)
           end == match.index + Len(match.text)
       IN  /\ str' = replaceAt(str, match.text, match.index, padStart(Len(replacement)))
           /\ result' = replaceAt(result, match.text, match.index, replacement)
           /\ lastIndex' = end
           /\ strOrig' = Prefix(strOrig, match.index)
                         \o [k \in 1..Len(replacement) |-> 0]
                         \o Substring(strOrig, end)
           /\ spans' = Append(spans, [rule |-> rule,
                                      lo |-> strOrig[match.index + 1],
                                      hi |-> strOrig[end]])
    /\ UNCHANGED <<pc, input, rule, trimmed, pageVars, registryVars>>

\* exec returned null (and reset lastIndex): the loop ends, the next RegExp is made
NextRule(match) ==
    /\ pc = "scan"
    /\ rule < NumRules
    /\ match = NoMatch
    /\ rule' = rule + 1
    /\ lastIndex' = 0
    /\ UNCHANGED <<pc, input, str, result, trimmed, strOrig, spans, pageVars, registryVars>>

\* the last loop ends: return the template of result
Return(match) ==
    /\ pc = "scan"
    /\ rule = NumRules
    /\ match = NoMatch
    /\ lastIndex' = 0
    /\ pc' = "done"
    /\ UNCHANGED <<input, str, result, rule, trimmed, strOrig, spans, pageVars, registryVars>>

\* while ((match = regexp.exec(str)) !== null) { ... }
Loop ==
    LET match == exec(rule, str, lastIndex)
    IN  Replace(match) \/ NextRule(match) \/ Return(match)

encode == Enter \/ Loop

----------------------------------------------------------------------------
(* The page: the sample constants (shortened, each with the line break the *)
(* template literal starts and ends with) and setSample                    *)

dataTypeSample ==
    <<"\n", "/", "/", " ", "n", "\n", "0", "x", "F", " ", "&", " ", "0", "7", "\n">>

operationsSample ==
    <<"\n", "3", "!", " ", "/", "/", " ", "f", "\n", "~", "0", "x", "A", "\n">>

variablesSample ==
    <<"\n", "f", "(", "x", ")", " ", "=", " ", "2", "*", "x", "\n">>

decoratorsSample ==
    <<"\n", "8", " ", "@", "o", "c", "t", " ", "/", "/", " ", "r", "\n">>

functionsSample ==
    <<"\n", "a", "b", "s", "(", "n", ")", " ", "|", " ", "t", "i", "m", "e", "(", ")", "\n">>

jsSample ==
    <<"\n", "/", "*", " ", "d", " ", "*", "/", "\n", "f", "(", "a", ")", " ", "}", "\n">>

Samples ==
    {dataTypeSample, operationsSample, variablesSample, decoratorsSample, functionsSample, jsSample}

Tags == {"sample_a", "sample_b"}

NoTag == "none"

\* setSample(sample, tag): getElementById, then the call of encode(sample)
setSampleCall(sample, t) ==
    /\ pc = "idle"
    /\ tag' = t
    /\ input' = sample
    /\ str' = sample
    /\ pc' = "call"
    /\ UNCHANGED <<result, rule, lastIndex, trimmed, strOrig, spans, doc, shown, registryVars>>

\* el.innerHTML = the string encode returned
setSampleStore ==
    /\ pc = "done"
    /\ tag # NoTag
    /\ doc' = [doc EXCEPT ![tag] = result]
    /\ shown' = [shown EXCEPT ![tag] = <<input>>]
    /\ tag' = NoTag
    /\ pc' = "idle"
    /\ UNCHANGED <<input, str, result, rule, lastIndex, trimmed, strOrig, spans, registryVars>>

setSample == (\E sample \in Samples, t \in Tags : setSampleCall(sample, t)) \/ setSampleStore

----------------------------------------------------------------------------
(* The registry *)

LavendeuxFormatter == "new LavendeuxFormatter()"
JavascriptFormatter == "new JavascriptFormatter()"
GetFunction == "name => ..."

\* the object after lines 213-219: its own properties
FormatterInstances ==
    [lavendeux |-> LavendeuxFormatter, javascript |-> JavascriptFormatter, get |-> GetFunction]

\* what every object inherits from Object.prototype
ObjectPrototype ==
    {"constructor", "toString", "toLocaleString", "valueOf", "hasOwnProperty",
     "isPrototypeOf", "propertyIsEnumerable", "__proto__"}

\* name in FormatterInstances: own and inherited properties
HasProperty(name) == name \in DOMAIN registry \/ name \in ObjectPrototype

\* FormatterInstances[name]
GetProperty(name) ==
    IF name \in DOMAIN registry THEN registry[name]
    ELSE IF name \in ObjectPrototype THEN "Object.prototype." \o name
    ELSE "undefined"

\* FormatterInstances.get
get(name) == IF HasProperty(name) THEN GetProperty(name) ELSE GetProperty("lavendeux")

\* the formatter ids a sample of samples.json may carry
FormatterIds == {"lavendeux", "javascript", "unknown-lang", "", "get", "toString"}

SampleLists == UNION {[1..n -> FormatterIds] : n \in 0..MaxSamples}

\* the text of the k-th sample of samples.json
SampleText(k) == <<"s", CASE k = 1 -> "1" [] k = 2 -> "2" [] k = 3 -> "3" [] OTHER -> "4">>

\* the lines of the example entry of samples.json
Example == << <<"e", "1">>, <<"e", "2">> >>

\* whether a value is a Formatter, an object with a format method
IsFormatter(value) == value \in {LavendeuxFormatter, JavascriptFormatter}

\* formatter.format(text): a fragment that depends on the instance and on the
\* text (the rule tables of the two dialects are in lavendeux.js, javascript.js)
format(formatter, text) == <<"<", formatter, ">">> \o text

TypeError == <<"TypeError">>

\* the k-th sample's toHTML(formatter): the formatter's format of its text;
\* calling format on a value that has none raises a TypeError
toHTML(k, formatter) ==
    IF IsFormatter(formatter) THEN format(formatter, SampleText(k)) ELSE TypeError

\* Array.prototype.join
RECURSIVE join(_, _)
join(list, separator) ==
    IF list = <<>> THEN <<>>
    ELSE IF Len(list) = 1 THEN list[1]
    ELSE list[1] \o separator \o join(Tail(list), separator)

NoCaller == "none"

Callers == {"getAllFormattedSamples", "getSampleHTML"}

\* a call of getAllFormattedSamples, directly or from getSampleHTML:
\* getAllSamples() and the start of the map
Call ==
    /\ outcome \in {"idle", "returned", "thrown"}
    /\ \E c \in Callers : caller' = c
    /\ outcome' = "map"
    /\ resolved' = <<>>
    /\ rendered' = <<>>
    /\ html' = <<>>
    /\ UNCHANGED <<samples, registry, encodeVars, pageVars>>

\* the map's callback on every sample with the formatter of the first entry
MapSampleFirstFormatter ==
    /\ outcome = "map"
    /\ Len(resolved) < Len(samples)
    /\ LET k == Len(resolved) + 1
           formatter == get(samples[1])
           fragment == toHTML(k, formatter)
       IN  /\ resolved' = Append(resolved, formatter)
           /\ IF fragment = TypeError
              THEN outcome' = "thrown" /\ rendered' = <<>>
              ELSE outcome' = outcome /\ rendered' = Append(rendered, fragment)
    /\ UNCHANGED <<samples, registry, caller, html, encodeVars, pageVars>>

\* the map's callback that stores the fallback under the name it was asked for
MapSampleRegisters ==
    /\ outcome = "map"
    /\ Len(resolved) < Len(samples)
    /\ LET k == Len(resolved) + 1
           formatter == get(samples[k])
           fragment == toHTML(k, formatter)
       IN  /\ resolved' = Append(resolved, formatter)
           /\ registry' = [name \in DOMAIN registry \cup {samples[k]} |->
                               IF name = samples[k] THEN formatter ELSE registry[name]]
           /\ IF fragment = TypeError
              THEN outcome' = "thrown" /\ rendered' = <<>>
              ELSE outcome' = outcome /\ rendered' = Append(rendered, fragment)
    /\ UNCHANGED <<samples, caller, html, encodeVars, pageVars>>

\* getAllFormattedSamples: the map's callback on the next sample,
\* s => s.toHTML(FormatterInstances.get(s.formatter)); an exception it raises
\* ends the map and the call, and the array built so far is dropped
MapSample ==
    /\ outcome = "map"
    /\ Len(resolved) < Len(samples)
    /\ LET k == Len(resolved) + 1
           formatter == get(samples[k])
           fragment == toHTML(k, formatter)
       IN  /\ resolved' = Append(resolved, formatter)
           /\ IF fragment = TypeError
              THEN outcome' = "thrown" /\ rendered' = <<>>
              ELSE outcome' = outcome /\ rendered' = Append(rendered, fragment)
    /\ UNCHANGED <<samples, registry, caller, html, encodeVars, pageVars>>

\* the map is through: getAllFormattedSamples returns the array, and
\* getSampleHTML returns it joined with line breaks
MapReturn ==
    /\ outcome = "map"
    /\ Len(resolved) = Len(samples)
    /\ outcome' = "returned"
    /\ html' = IF caller = "getSampleHTML" THEN join(rendered, <<"\n">>) ELSE <<>>
    /\ UNCHANGED <<samples, resolved, registry, rendered, caller, encodeVars, pageVars>>

\* getExampleSample: sampleJSON.example.join('\n')
getExampleSample ==
    /\ outcome \in {"idle", "returned", "thrown"}
    /\ caller' = "getExampleSample"
    /\ outcome' = "returned"
    /\ resolved' = <<>>
    /\ rendered' = <<>>
    /\ html' = join(Example, <<"\n">>)
    /\ UNCHANGED <<samples, registry, encodeVars, pageVars>>

----------------------------------------------------------------------------
(* Specifications *)

Init ==
    /\ pc = "call"
    /\ input \in Texts
    /\ str = input
    /\ result = <<>>
    /\ rule = 1
    /\ lastIndex = 0
    /\ trimmed = <<>>
    /\ strOrig = <<>>
    /\ spans = <<>>
    /\ doc = <<>>
    /\ shown = <<>>
    /\ tag = NoTag
    /\ samples = <<>>
    /\ resolved = <<>>
    /\ registry = FormatterInstances
    /\ rendered = <<>>
    /\ caller = NoCaller
    /\ outcome = "idle"
    /\ html = <<>>

Next == Enter \/ Loop

Spec == Init /\ [][Next]_vars

\* encode is one synchronous call that nothing suspends: it keeps taking steps
\* until it returns.  This is weak fairness of Next with the enabling
\* condition of Next, pc # "done", written out.
Running == <>[](pc = "done") \/ []<><<Next>>_vars

SpecRun == Init /\ [][Next]_vars /\ Running

InitLong ==
    /\ pc = "call"
    /\ input \in LongTexts
    /\ str = input
    /\ result = <<>>
    /\ rule = 1
    /\ lastIndex = 0
    /\ trimmed = <<>>
    /\ strOrig = <<>>
    /\ spans = <<>>
    /\ doc = <<>>
    /\ shown = <<>>
    /\ tag = NoTag
    /\ samples = <<>>
    /\ resolved = <<>>
    /\ registry = FormatterInstances
    /\ rendered = <<>>
    /\ caller = NoCaller
    /\ outcome = "idle"
    /\ html = <<>>

SpecLong == InitLong /\ [][Next]_vars

InitNested ==
    /\ pc = "call"
    /\ input \in NestedTexts
    /\ str = input
    /\ result = <<>>
    /\ rule = 1
    /\ lastIndex = 0
    /\ trimmed = <<>>
    /\ strOrig = <<>>
    /\ spans = <<>>
    /\ doc = <<>>
    /\ shown = <<>>
    /\ tag = NoTag
    /\ samples = <<>>
    /\ resolved = <<>>
    /\ registry = FormatterInstances
    /\ rendered = <<>>
    /\ caller = NoCaller
    /\ outcome = "idle"
    /\ html = <<>>

SpecNested == InitNested /\ [][Next]_vars

InitPage ==
    /\ pc = "idle"
    /\ input = <<>>
    /\ str = <<>>
    /\ result = <<>>
    /\ rule = 1
    /\ lastIndex = 0
    /\ trimmed = <<>>
    /\ strOrig = <<>>
    /\ spans = <<>>
    /\ doc = [t \in Tags |-> <<>>]
    /\ shown = [t \in Tags |-> <<>>]
    /\ tag = NoTag
    /\ samples = <<>>
    /\ resolved = <<>>
    /\ registry = FormatterInstances
    /\ rendered = <<>>
    /\ caller = NoCaller
    /\ outcome = "idle"
    /\ html = <<>>

NextPage == setSample \/ encode

SpecPage == InitPage /\ [][NextPage]_vars

InitRegistry ==
    /\ pc = "idle"
    /\ input = <<>>
    /\ str = <<>>
    /\ result = <<>>
    /\ rule = 1
    /\ lastIndex = 0
    /\ trimmed = <<>>
    /\ strOrig = <<>>
    /\ spans = <<>>
    /\ doc = <<>>
    /\ shown = <<>>
    /\ tag = NoTag
    /\ samples \in SampleLists
    /\ resolved = <<>>
    /\ registry = FormatterInstances
    /\ rendered = <<>>
    /\ caller = NoCaller
    /\ outcome = "idle"
    /\ html = <<>>

NextRegistry == Call \/ MapSample \/ MapReturn \/ getExampleSample

SpecRegistry == InitRegistry /\ [][NextRegistry]_vars

----------------------------------------------------------------------------
(* Reading a text *)

\* whether t occurs in s at position i
OccursAt(s, i, t) == i >= 1 /\ i + Len(t) - 1 <= Len(s) /\ SubSeq(s, i, i + Len(t) - 1) = t

Contains(s, t) == \E i \in 1..(Len(s) + 1) : OccursAt(s, i, t)

StartsWith(s, t) == OccursAt(s, 1, t)

EndsWith(s, t) == OccursAt(s, Len(s) - Len(t) + 1, t)

Classes == {ClassComment, ClassRadix, ClassDecorator, ClassFunction, ClassData}

AllTags == {SpanOpen(c) : c \in Classes} \cup {SpanClose}

\* the length of the span tag that starts at position i of s, 0 if none does
TagLength(s, i) ==
    IF \E t \in AllTags : OccursAt(s, i, t)
    THEN Len(CHOOSE t \in AllTags : OccursAt(s, i, t))
    ELSE 0

\* whether position k of s lies inside a span tag
InTag(s, k) == \E i \in 1..k : s[i] = "<" /\ TagLength(s, i) > k - i

\* positions lo..hi of s with every opening and closing span tag deleted
RECURSIVE StripTags(_, _, _)
StripTags(s, lo, hi) ==
    IF lo > hi THEN <<>>
    ELSE IF lo = hi THEN (IF InTag(s, lo) THEN <<>> ELSE <<s[lo]>>)
    ELSE LET mid == (lo + hi) \div 2
         IN  StripTags(s, lo, mid) \o StripTags(s, mid + 1, hi)

Blank(s) == \A k \in 1..Len(s) : s[k] \in WhiteSpace

----------------------------------------------------------------------------
(* C1: the matches of the seven rules cover pairwise disjoint ranges of    *)
(* the trimmed input: no later match includes a character of a region an   *)
(* earlier match consumed.                                                 *)
C1_DisjointMatches ==
    \A a, b \in DOMAIN spans :
        a < b => (spans[a].hi < spans[b].lo \/ spans[b].hi < spans[a].lo)

(* C2: after every match replacement the scan buffer and the result buffer *)
(* have the same length and agree at every offset that is not masked.      *)
C2_BuffersAligned ==
    pc \in {"scan", "done"} =>
        /\ Len(str) = Len(result)
        /\ \A k \in 1..Len(str) :
               strOrig[k] # 0 => (k <= Len(result) /\ result[k] = str[k])

(* C3: the output is the trimmed input with markup only added: deleting    *)
(* every span tag from it yields exactly the trimmed input.                *)
C3_MarkupOnlyAdded ==
    pc = "done" => StripTags(result, 1, Len(result)) = trimmed

(* C4: the text from a // to the end of its line is wrapped in one comment *)
(* span, and no later rule puts markup inside that span: the output holds  *)
(* the opening tag, that text untouched, and the closing tag in a row.     *)
LineCommentStarts(t) ==
    {i \in 1..(Len(t) - 1) :
        /\ t[i] = "/" /\ t[i + 1] = "/"
        /\ \A j \in 1..(i - 1) :
               (t[j] = "/" /\ t[j + 1] = "/") =>
                   \E k \in j..(i - 1) : t[k] \in LineTerminators}

LineCommentText(t, i) == SubSeq(t, i, RunEndNot(t, i + 2, LineTerminators) - 1)

C4_LineCommentWins ==
    pc = "done" =>
        \A i \in LineCommentStarts(trimmed) :
            Contains(result, SpanOpen(ClassComment) \o LineCommentText(trimmed, i) \o SpanClose)

(* C5: for a call expression identifier(args), the output opens a function *)
(* span right before the identifier and closes it right after the closing  *)
(* parenthesis, so the markup brackets the whole call.                     *)
\* t is one call: an identifier, (, arguments without parentheses or comments, )
IsCall(t, n) ==
    /\ n >= 1 /\ n + 2 <= Len(t)
    /\ \A k \in 1..n : t[k] \in WordChars
    /\ t[1] \notin Digits
    /\ t[n + 1] = "("
    /\ t[Len(t)] = ")"
    /\ \A k \in (n + 2)..(Len(t) - 1) : t[k] \notin {"(", ")", "/", "*"}

C5_CallBracketed ==
    pc = "done" =>
        \A n \in 1..Len(trimmed) :
            IsCall(trimmed, n) =>
                /\ StartsWith(result, SpanOpen(ClassFunction) \o SubSeq(trimmed, 1, n + 1))
                /\ EndsWith(result, <<")">> \o SpanClose)

(* C6: a line comment followed on later lines by radix-prefixed literals   *)
(* separated by operators and spaces comes out as the comment in one       *)
(* comment span, each literal in one radix span (and in no data span), and *)
(* the operators and spaces between them unchanged.                        *)
Operators == {"&", "|", "^", "~", "<", ">"}

\* every run of letters and digits in s is 0x.., 0b.. or 0o.., and nothing else
\* is there but operators, spaces and line breaks
RadixLines(s) ==
    /\ \E k \in 1..Len(s) : s[k] \in Alnum
    /\ \A k \in 1..Len(s) :
        /\ s[k] \in Alnum \cup Operators \cup {" ", "\n"}
        /\ (s[k] \in Alnum /\ At(s, k - 1) \notin Alnum) =>
               /\ s[k] = "0"
               /\ At(s, k + 1) \in {"x", "b", "o"}
               /\ At(s, k + 2) \in Alnum

RECURSIVE WrapRadix(_, _)
WrapRadix(s, i) ==
    IF i > Len(s) THEN <<>>
    ELSE IF s[i] \in Alnum
         THEN LET e == RunEnd(s, i, Alnum)
              IN  SpanOpen(ClassRadix) \o SubSeq(s, i, e - 1) \o SpanClose \o WrapRadix(s, e)
         ELSE <<s[i]>> \o WrapRadix(s, i + 1)

C6_CommentThenRadix ==
    pc = "done" =>
        \A n \in 2..(Len(trimmed) - 1) :
            ( /\ StartsWith(trimmed, <<"/", "/">>)
              /\ trimmed[n + 1] = "\n"
              /\ \A k \in 1..n : trimmed[k] \notin LineTerminators
              /\ RadixLines(Substring(trimmed, n + 1)) )
            => result = SpanOpen(ClassComment) \o SubSeq(trimmed, 1, n) \o SpanClose
                        \o <<"\n">> \o WrapRadix(Substring(trimmed, n + 1), 1)

(* C7: FormatterInstances.get returns the lavendeux formatter for every    *)
(* name other than "lavendeux" and "javascript".                           *)
C7_UnknownIsDefault ==
    \A k \in DOMAIN resolved :
        samples[k] \notin {"lavendeux", "javascript"} => resolved[k] = LavendeuxFormatter

(* C8: when no rule matches anywhere, the output is the HTML-escaped input *)
(* with nothing else changed and no markup added.                          *)
escapeHTML(s) ==
    LET esc(c) ==
            CASE c = "&" -> <<"&", "a", "m", "p", ";">>
              [] c = "<" -> <<"&", "l", "t", ";">>
              [] c = ">" -> <<"&", "g", "t", ";">>
              [] c = "\"" -> <<"&", "q", "u", "o", "t", ";">>
              [] c = "'" -> <<"&", "#", "3", "9", ";">>
              [] OTHER -> <<c>>
        F[k \in 0..Len(s)] == IF k = 0 THEN <<>> ELSE F[k - 1] \o esc(s[k])
    IN  F[Len(s)]

C8_NoMatchEscaped ==
    (pc = "done" /\ spans = <<>>) => result = escapeHTML(trimmed)

(* C9: encode of the empty string, and of any text made only of            *)
(* whitespace, returns the empty string (and no rule matches on the way).  *)
C9_BlankGivesEmpty ==
    (pc = "done" /\ Blank(input)) => (result = <<>> /\ spans = <<>>)

C9_Witness ==
    /\ pc = "done"
    /\ Blank(input)
    /\ Len(input) >= 2
    /\ \E k \in 1..Len(input) : input[k] = "\n"
    /\ result = <<>>

(* C10: any two calls of encode on the same text return the same string,   *)
(* whatever calls on other texts come between them: the string a call      *)
(* returns equals the one an earlier call on that text put on the page.    *)
C10_Deterministic ==
    pc = "done" => \A t \in DOMAIN shown : shown[t] = <<input>> => doc[t] = result

C10_Witness ==
    /\ pc = "done"
    /\ Len(spans) >= 2
    /\ \E t, u \in DOMAIN shown :
        /\ shown[t] = <<input>>
        /\ doc[t] = result
        /\ shown[u] # <<>>
        /\ shown[u] # <<input>>

(* C11: encode terminates on every input: the loops together run at most   *)
(* one iteration per character of the trimmed input, however much the scan *)
(* buffer grows, and the call then returns the result buffer.              *)
C11_Terminates ==
    /\ [](Len(spans) <= Len(trimmed))
    /\ <>(pc = "done")

C11_Witness ==
    /\ pc = "done"
    /\ Len(spans) >= 3
    /\ Len(str) > Len(trimmed) + 60
    /\ \E a, b \in DOMAIN spans : spans[a].rule # spans[b].rule

(* C12: a sample that cannot be rendered does not abort the batch: when    *)
(* the call ends, every sample whose formatter can render it has its       *)
(* fragment in what the call hands back.                                   *)
C12_BatchSurvives ==
    (outcome \in {"returned", "thrown"} /\ caller \in Callers) =>
        \A k \in DOMAIN samples :
            IsFormatter(get(samples[k])) =>
                \E j \in DOMAIN rendered : rendered[j] = toHTML(k, get(samples[k]))

(* C13: getAllFormattedSamples returns one fragment per loaded sample, in  *)
(* the order of the samples, each the output of the formatter resolved     *)
(* from that sample's own formatter id; getSampleHTML returns these        *)
(* fragments in that order with one line break between neighbours.         *)
RECURSIVE Joined(_, _)
Joined(list, k) ==
    IF k > Len(list) THEN <<>>
    ELSE IF k = Len(list) THEN list[k]
    ELSE list[k] \o <<"\n">> \o Joined(list, k + 1)

C16_RegistryUntouched ==
    /\ registry = FormatterInstances
    /\ \A k \in DOMAIN resolved :
           IsFormatter(resolved[k]) =>
               resolved[k] \in {registry["lavendeux"], registry["javascript"]}
    /\ \A k \in DOMAIN resolved :
           samples[k] \in {"lavendeux", "javascript"} => resolved[k] = registry[samples[k]]

C16_Witness ==
    /\ outcome = "returned"
    /\ caller = "getSampleHTML"
    /\ Len(samples) = 3
    /\ samples[1] = "lavendeux"
    /\ samples[2] = "unknown-lang"
    /\ samples[3] = "javascript"
    /\ Len(resolved) = 3
    /\ registry = FormatterInstances

(* C14: when the loop of a rule ends, the scan buffer holds no match of    *)
(* that rule's pattern, and while the loop runs no match of it starts      *)
(* before the cursor: resuming at the cursor after the buffer grew skips   *)
(* no text that was not scanned.                                           *)
C14_LoopExhausts ==
    /\ [](pc = "scan" => FirstMatch(rule, str, 1, lastIndex) = 0)
    /\ [][(pc = "scan" /\ (rule' # rule \/ pc' = "done"))
              => FirstMatch(rule, str, 1, Len(str)) = 0]_vars

C14_Witness ==
    /\ pc = "scan"
    /\ Len(spans) = 2
    /\ spans[1].rule = spans[2].rule
    /\ rule > spans[2].rule
    /\ Len(str) > Len(trimmed)
    /\ \E k \in 1..Len(str) : strOrig[k] # 0 /\ str[k] \notin WhiteSpace

(* C15: no rule matches the empty string: wherever one of the seven        *)
(* patterns matches in the scan buffer the match holds at least one        *)
(* character, and every loop iteration moves the cursor forward.           *)
C15_NoEmptyMatch ==
    /\ [](\A r \in 1..NumRules : \A i \in 1..(Len(str) + 1) :
              MatchEnd(r, str, i) = 0 \/ MatchEnd(r, str, i) > i)
    /\ [][Len(spans') > Len(spans) => lastIndex' > lastIndex]_vars

C15_Witness ==
    /\ pc = "done"
    /\ Len(spans) >= 3
    /\ \E a, b, c \in DOMAIN spans :
           spans[a].rule = 5 /\ spans[b].rule = 6 /\ spans[c].rule = 7
    /\ \E a \in DOMAIN spans : spans[a].lo = spans[a].hi

(* C17: for an input whose parentheses outside comments are properly       *)
(* nested, the span tags of the output are balanced and properly nested:   *)
(* no closing tag comes before its opening tag, as many close as open, and *)
(* a comment, radix, decorator or data span holds no other tag.            *)
\* whether position k of the trimmed input lies in a comment the line-comment
\* or the block-comment loop matched
InComment(k) ==
    \E a \in DOMAIN spans :
        spans[a].rule \in {1, 2} /\ spans[a].lo <= k /\ k <= spans[a].hi

\* whether the parentheses of t from i on, outside those comments, are
\* properly nested, depth being the number of parentheses open so far
RECURSIVE ParensNested(_, _, _)
ParensNested(t, i, depth) ==
    IF i > Len(t) THEN depth = 0
    ELSE IF InComment(i) THEN ParensNested(t, i + 1, depth)
    ELSE IF t[i] = "(" THEN ParensNested(t, i + 1, depth + 1)
    ELSE IF t[i] = ")" THEN depth > 0 /\ ParensNested(t, i + 1, depth - 1)
    ELSE ParensNested(t, i + 1, depth)

OpenTags(s) == {i \in 1..Len(s) : \E c \in Classes : OccursAt(s, i, SpanOpen(c))}

CloseTags(s) == {i \in 1..Len(s) : OccursAt(s, i, SpanClose)}

LeafTags(s) ==
    {i \in 1..Len(s) : \E c \in Classes \ {ClassFunction} : OccursAt(s, i, SpanOpen(c))}

TagsBalanced(s) ==
    LET open == OpenTags(s)
        close == CloseTags(s)
    IN  /\ Cardinality(open) = Cardinality(close)
        /\ \A i \in close :
               Cardinality({j \in close : j <= i}) <= Cardinality({j \in open : j < i})
        /\ \A i \in LeafTags(s) :
               \E j \in close : j > i /\ \A k \in open \cup close : ~(i < k /\ k < j)

C17_TagsBalanced ==
    (pc = "done" /\ ParensNested(trimmed, 1, 0)) => TagsBalanced(result)

====
